---- MODULE Spec2Model ----
(***************************************************************************)
(* Model of the interval-based classification and replication-factor      *)
(* engine of replica_clean.py (ReplicaAlgorithm) and calculator.py         *)
(* (Calculator).                                                           *)
(*                                                                         *)
(* Timestamps are whole minutes.  Filenames are integers, ordered as the   *)
(* filename strings are.  PD_i and T are floats in the program; here they  *)
(* are exact fractions <<numerator, denominator>> with a positive          *)
(* denominator, compared by cross-multiplication; a positive numerator     *)
(* over the denominator 0 is the float inf that numpy yields for a         *)
(* division of a positive float by zero.                                   *)
(***************************************************************************)
EXTENDS Integers, Sequences, FiniteSets, TLC

\* ---------------------------------------------------------------- bounds
\* rows of the input log
MaxEvents == 3
\* last timestamp of the input log, in steps of two thirds of an interval
MaxTick == 4

\* largest DN_count for which calculate_weight is tabulated
MaxDN == 12
\* largest dnc_i for which calculate_weight is tabulated
MaxDnc == 12

\* interval_duration = pd.Timedelta(minutes=60)
IntervalMinutes == 60

\* values of the filename column of the input log
Files == {1, 2}
\* values of the node_id column of the input log
Nodes == {1, 2}
\* values of the timestamp column of the input log: 0, 40, 80, ... minutes,
\* so that windows hold one or two of them and 120 is a window boundary
Times == {k * ((2 * IntervalMinutes) \div 3) : k \in 0..MaxTick}
\* values of the current_replication_factor column of the input log
InitialRFs == {1, 10}
\* values of the DN_count constructor argument, which __init__ stores as
\* given
DNCounts == {0, 2, 4}

VARIABLES
  log_file,       \* rows of the CSV file named by self.log_file
  DN_count,       \* self.DN_count
  df,             \* self.df, << >> while None
  current_rf,     \* self.current_rf, a dict filename -> replication factor
  time_interval,  \* run(): the list returned by set_time_interval
  interval_idx,   \* run(): index of the interval being processed (from 1)
  file_metrics,   \* run(): rows returned by process_files
  T,              \* run(): threshold of the interval, a fraction
  HD,             \* run(): hot rows
  WD,             \* run(): warm rows
  CD,             \* run(): cold rows
  results,        \* the interval_<k>_results.csv files written so far
  pc              \* position of run()

vars == <<log_file, DN_count, df, current_rf, time_interval, interval_idx,
          file_metrics, T, HD, WD, CD, results, pc>>

\* ------------------------------------------------------------ helpers
Range(s) == {s[i] : i \in 1..Len(s)}

Max(a, b) == IF a >= b THEN a ELSE b

SetMin(S) == CHOOSE x \in S : \A y \in S : x <= y

SetMax(S) == CHOOSE x \in S : \A y \in S : x >= y

\* a/b >= c/d for positive denominators, and for c/d = inf (d = 0, c > 0)
FracGeq(p, q) == p[1] * q[2] >= q[1] * p[2]

\* a/b < c/d for positive denominators, and for c/d = inf (d = 0, c > 0)
FracLess(p, q) == p[1] * q[2] < q[1] * p[2]

\* a/b + c/d
FracAdd(p, q) == <<p[1] * q[2] + q[1] * p[2], p[2] * q[2]>>

\* ------------------------------------------------------------ Calculator
\* variant of calculate_weight: the tier boundaries are exclusive
calculate_weight_exclusive(dnc_i, dn) ==
  IF 4 * dnc_i > 3 * dn THEN 4
  ELSE IF 2 * dnc_i > dn THEN 3
  ELSE IF 4 * dnc_i > dn THEN 2
  ELSE 1

\* DN_count * 0.75, * 0.5 and * 0.25 are exact in floats
calculate_weight(dnc_i, dn) ==
  IF 4 * dnc_i >= 3 * dn THEN 4
  ELSE IF 2 * dnc_i >= dn THEN 3
  ELSE IF 4 * dnc_i >= dn THEN 2
  ELSE 1

calculate_popularity_degree(ac_i, dnc_i, w_i, crf_i) ==
  <<ac_i * dnc_i * w_i, IF crf_i = 0 THEN 1 ELSE crf_i>>

RECURSIVE SumPD(_)
SumPD(rows) ==
  IF rows = << >> THEN <<0, 1>>
  ELSE FracAdd(Head(rows).PD_i, SumPD(Tail(rows)))

\* T = (sum(PD_i) / n) / DN_count; reading column PD_i of a frame without
\* rows (and so without columns) raises KeyError; mean_PD is a numpy float,
\* so DN_count = 0 gives inf and no exception
calculate_threshold(metrics, dn) ==
  IF metrics = << >> THEN [error |-> "KeyError", value |-> <<0, 1>>]
  ELSE LET s == SumPD(metrics)
       IN [error |-> "none", value |-> <<s[1], s[2] * Len(metrics) * dn>>]

\* variant of python_round: ties go up
python_round_half_up(num, den) == (2 * num + den) \div (2 * den)

\* int(round(num / den)) of Python 3: ties go to the even neighbour
python_round(num, den) ==
  LET q == num \div den
      r == num % den
  IN IF 2 * r < den THEN q
     ELSE IF 2 * r > den THEN q + 1
     ELSE IF q % 2 = 0 THEN q ELSE q + 1

\* ------------------------------------------------------ ReplicaAlgorithm
\* while current < max_time: intervals.append((current, current + 60min))
RECURSIVE IntervalsFrom(_, _)
IntervalsFrom(current, max_time) ==
  IF current < max_time
  THEN <<(<<current, current + IntervalMinutes>>)>>
         \o IntervalsFrom(current + IntervalMinutes, max_time)
  ELSE << >>

\* min() and max() of an empty timestamp column are NaT and NaT < NaT is
\* false, so a frame without rows yields no interval
set_time_interval(frame) ==
  IF frame = << >> THEN << >>
  ELSE LET stamps == {frame[i].timestamp : i \in 1..Len(frame)}
       IN IntervalsFrom(SetMin(stamps), SetMax(stamps))

read_logfile(frame, start_time, end_time) ==
  SelectSeq(frame, LAMBDA e : e.timestamp >= start_time /\ e.timestamp < end_time)

\* interval_logs['filename'].unique(): filenames in order of first appearance
RECURSIVE Unique(_)
Unique(names) ==
  IF names = << >> THEN << >>
  ELSE LET init == Unique(SubSeq(names, 1, Len(names) - 1))
           last == names[Len(names)]
       IN IF last \in Range(init) THEN init ELSE Append(init, last)

FileLogs(interval_logs, filename) ==
  SelectSeq(interval_logs, LAMBDA e : e.filename = filename)

\* variant of ResolveCrf: the log's value is used even for a known filename
ResolveCrfFromLog(rf, interval_logs, filename) ==
  FileLogs(interval_logs, filename)[1].current_replication_factor

\* the crf_i process_files resolves for one filename
ResolveCrf(rf, interval_logs, filename) ==
  IF filename \in DOMAIN rf THEN rf[filename]
  ELSE FileLogs(interval_logs, filename)[1].current_replication_factor

\* the row process_files builds for one filename
MetricsRow(rf, interval_logs, filename, dn) ==
  LET file_logs == FileLogs(interval_logs, filename)
      ac_i == Len(file_logs)
      dnc_i == Cardinality({file_logs[i].node_id : i \in 1..Len(file_logs)})
      crf_i == ResolveCrf(rf, interval_logs, filename)
      w_i == calculate_weight(dnc_i, dn)
  IN [filename |-> filename, ac_i |-> ac_i, dnc_i |-> dnc_i, crf_i |-> crf_i,
      w_i |-> w_i, PD_i |-> calculate_popularity_degree(ac_i, dnc_i, w_i, crf_i)]

\* variant of process_files: the entry of every filename of the window is
\* written from the log, also when the dict already has one
process_files_reseed(rf, interval_logs, dn) ==
  LET names == Unique([i \in 1..Len(interval_logs) |-> interval_logs[i].filename])
      seen == Range(names)
  IN [metrics |-> [i \in 1..Len(names) |-> MetricsRow(rf, interval_logs, names[i], dn)],
      rf |-> [f \in (DOMAIN rf) \cup seen |->
                IF f \in seen
                THEN FileLogs(interval_logs, f)[1].current_replication_factor
                ELSE rf[f]]]

\* process_files: the rows and the dict after first-sight seeding
process_files(rf, interval_logs, dn) ==
  LET names == Unique([i \in 1..Len(interval_logs) |-> interval_logs[i].filename])
      seen == Range(names)
  IN [metrics |-> [i \in 1..Len(names) |-> MetricsRow(rf, interval_logs, names[i], dn)],
      rf |-> [f \in (DOMAIN rf) \cup seen |->
                IF f \in DOMAIN rf THEN rf[f]
                ELSE ResolveCrf(rf, interval_logs, f)]]

\* variant of Classification: the first branch tests w_i in [4] only
ClassificationHotOnly4(row, threshold) ==
  IF FracGeq(row.PD_i, threshold) /\ row.w_i \in {4} THEN "HOT"
  ELSE IF FracGeq(row.PD_i, threshold) /\ row.w_i \in {1, 2} THEN "WARM"
  ELSE IF FracLess(row.PD_i, threshold) /\ row.w_i \in {3, 4} THEN "WARM"
  ELSE "COLD"

\* the branch of the if/elif chain of classify_files a row takes
Classification(row, threshold) ==
  IF FracGeq(row.PD_i, threshold) /\ row.w_i \in {3, 4} THEN "HOT"
  ELSE IF FracGeq(row.PD_i, threshold) /\ row.w_i \in {1, 2} THEN "WARM"
  ELSE IF FracLess(row.PD_i, threshold) /\ row.w_i \in {3, 4} THEN "WARM"
  ELSE "COLD"

Classified(metrics, threshold) ==
  [i \in 1..Len(metrics) |->
     [filename |-> metrics[i].filename, ac_i |-> metrics[i].ac_i,
      dnc_i |-> metrics[i].dnc_i, crf_i |-> metrics[i].crf_i,
      w_i |-> metrics[i].w_i, PD_i |-> metrics[i].PD_i,
      classification |-> Classification(metrics[i], threshold)]]

\* variant of classify_files: the warm test is an independent if, so a row
\* with PD_i >= T and w_i in [3, 4] is appended to HD and to WD
classify_files_independent_if(metrics, threshold) ==
  LET rows == Classified(metrics, threshold)
  IN [HD |-> SelectSeq(rows, LAMBDA r : r.classification = "HOT"),
      WD |-> SelectSeq(rows, LAMBDA r : r.classification \in {"HOT", "WARM"}),
      CD |-> SelectSeq(rows, LAMBDA r : r.classification = "COLD")]

\* HD, WD, CD in the order the loop of classify_files appends the rows
classify_files(metrics, threshold) ==
  LET rows == Classified(metrics, threshold)
  IN [HD |-> SelectSeq(rows, LAMBDA r : r.classification = "HOT"),
      WD |-> SelectSeq(rows, LAMBDA r : r.classification = "WARM"),
      CD |-> SelectSeq(rows, LAMBDA r : r.classification = "COLD")]

\* variant of NewRfHotWarm: (crf_i * DN_count) / dnc_i
NewRfHotWarmSwapped(row, dn) == Max(1, python_round(row.crf_i * dn, row.dnc_i))

\* nrf_i = max(1, int(round((crf_i * dnc_i) / DN_count)))
NewRfHotWarm(row, dn) == Max(1, python_round(row.crf_i * row.dnc_i, dn))

\* variant of NewRfCold: the replication factor is kept
NewRfColdKept(row) == row.crf_i

\* nrf_i = 1
NewRfCold(row) == 1

\* file_data['nrf_i'] = nrf_i
WithNrf(row, nrf_i) == ("nrf_i" :> nrf_i) @@ row

\* self.current_rf[filename] = nrf_i for every row, in order
RECURSIVE StoreRf(_, _)
StoreRf(rf, rows) ==
  IF rows = << >> THEN rf
  ELSE StoreRf((Head(rows).filename :> Head(rows).nrf_i) @@ rf, Tail(rows))

\* variant of ErasureFlag: the flag is set for the cold rows only
ErasureFlagColdOnly(row) == row.classification = "COLD"

\* erasure_coding = (nrf_i == 1)
ErasureFlag(row) == row.nrf_i = 1

ClassOrder(c) == IF c = "HOT" THEN 0 ELSE IF c = "WARM" THEN 1 ELSE 2

\* variant of RowBefore: filenames descending within a classification
RowBeforeDescending(a, b) ==
  \/ ClassOrder(a.classification) < ClassOrder(b.classification)
  \/ /\ ClassOrder(a.classification) = ClassOrder(b.classification)
     /\ a.filename > b.filename

\* df.sort_values(['sort_key', 'filename'])
RowBefore(a, b) ==
  \/ ClassOrder(a.classification) < ClassOrder(b.classification)
  \/ /\ ClassOrder(a.classification) = ClassOrder(b.classification)
     /\ a.filename < b.filename

\* the table save_interval_results writes
ResultTable(hd, wd, cd, threshold, start_time, end_time) ==
  LET all_files == hd \o wd \o cd
      rows == [i \in 1..Len(all_files) |->
                 [filename |-> all_files[i].filename,
                  ac_i |-> all_files[i].ac_i,
                  dnc_i |-> all_files[i].dnc_i,
                  w_i |-> all_files[i].w_i,
                  crf_i |-> all_files[i].crf_i,
                  PD_i |-> all_files[i].PD_i,
                  threshold |-> threshold,
                  classification |-> all_files[i].classification,
                  nrf_i |-> all_files[i].nrf_i,
                  erasure_coding |-> ErasureFlag(all_files[i]),
                  interval_start |-> start_time,
                  interval_end |-> end_time]]
  IN SortSeq(rows, RowBefore)

\* ------------------------------------------------------------------ Init
Event == [filename : Files, node_id : Nodes, timestamp : Times,
          current_replication_factor : InitialRFs]

\* timestamp columns of n rows, ordered by timestamp as data_generator.py
\* writes them, the time axis starting at the first event
SortedStamps(n) ==
  {ts \in [1..n -> Times] :
     /\ n > 0 => ts[1] = 0
     /\ \A i \in 1..(n - 1) : ts[i] <= ts[i + 1]}

\* node_id columns of n rows, the node ids numbered in the order of their
\* first appearance (the program only counts distinct node ids)
NodeColumns(n) ==
  {ns \in [1..n -> Nodes] :
     \A i \in 1..n :
       \A v \in Nodes : v < ns[i] => \E j \in 1..(i - 1) : ns[j] = v}

\* the log with the given columns
LogOf(n, fs, ns, ts, rs) ==
  [i \in 1..n |->
     [filename |-> fs[i], node_id |-> ns[i], timestamp |-> ts[i],
      current_replication_factor |-> rs[i]]]

\* a ReplicaAlgorithm constructed over an input log of at most MaxEvents rows
Init ==
  /\ \E n \in 0..MaxEvents :
       \E ts \in SortedStamps(n) :
         \E ns \in NodeColumns(n) :
           \E fs \in [1..n -> Files] :
             \E rs \in [1..n -> InitialRFs] :
               log_file = LogOf(n, fs, ns, ts, rs)
  /\ DN_count \in DNCounts
  /\ df = << >>
  /\ current_rf = << >>
  /\ time_interval = << >>
  /\ interval_idx = 0
  /\ file_metrics = << >>
  /\ T = <<0, 1>>
  /\ HD = << >>
  /\ WD = << >>
  /\ CD = << >>
  /\ results = << >>
  /\ pc = "start"

\* --------------------------------------------------------------- actions
\* run(): time_interval = self.set_time_interval(), then the first iteration
SetTimeInterval ==
  /\ pc = "start"
  /\ df' = log_file
  /\ time_interval' = set_time_interval(log_file)
  /\ interval_idx' = 1
  /\ pc' = "process_files"
  /\ UNCHANGED <<log_file, DN_count, current_rf, file_metrics, T, HD, WD, CD,
                 results>>

\* run(): interval_logs = read_logfile(...); file_metrics = process_files(...)
ProcessFiles ==
  /\ pc = "process_files"
  /\ interval_idx <= Len(time_interval)
  /\ LET iv == time_interval[interval_idx]
         interval_logs == read_logfile(df, iv[1], iv[2])
         out == process_files(current_rf, interval_logs, DN_count)
     IN /\ file_metrics' = out.metrics
        /\ current_rf' = out.rf
  /\ pc' = "threshold"
  /\ UNCHANGED <<log_file, DN_count, df, time_interval, interval_idx, T, HD,
                 WD, CD, results>>

\* run(): T = cal.calculate_threshold(file_metrics, self.DN_count)
CalculateThreshold ==
  /\ pc = "threshold"
  /\ LET out == calculate_threshold(file_metrics, DN_count)
     IN IF out.error = "none"
        THEN /\ T' = out.value
             /\ pc' = "classify"
        ELSE /\ T' = T
             /\ pc' = out.error
  /\ UNCHANGED <<log_file, DN_count, df, current_rf, time_interval,
                 interval_idx, file_metrics, HD, WD, CD, results>>

\* run(): HD, WD, CD = self.classify_files(file_metrics, T)
ClassifyFiles ==
  /\ pc = "classify"
  /\ LET out == classify_files(file_metrics, T)
     IN /\ HD' = out.HD
        /\ WD' = out.WD
        /\ CD' = out.CD
  /\ pc' = "hot_warm"
  /\ UNCHANGED <<log_file, DN_count, df, current_rf, time_interval,
                 interval_idx, file_metrics, T, results>>

\* (crf_i * dnc_i) / self.DN_count of the first hot or warm row divides by
\* zero: ZeroDivisionError on Python ints, OverflowError from round(inf) on
\* numpy ints, both an ArithmeticError raised before anything is stored
HotWarmRaises == DN_count = 0 /\ HD \o WD # << >>

\* run(): self.calculate_new_rf_for_hot_warm(HD, WD)
CalculateNewRfForHotWarm ==
  /\ pc = "hot_warm"
  /\ IF HotWarmRaises
     THEN /\ pc' = "ArithmeticError"
          /\ UNCHANGED <<HD, WD, current_rf>>
     ELSE /\ HD' = [i \in 1..Len(HD) |->
                     WithNrf(HD[i], NewRfHotWarm(HD[i], DN_count))]
          /\ WD' = [i \in 1..Len(WD) |->
                     WithNrf(WD[i], NewRfHotWarm(WD[i], DN_count))]
          /\ current_rf' = StoreRf(current_rf, HD' \o WD')
          /\ pc' = "cold"
  /\ UNCHANGED <<log_file, DN_count, df, time_interval, interval_idx,
                 file_metrics, T, CD, results>>

\* run(): self.process_cold_data(CD)
ProcessColdData ==
  /\ pc = "cold"
  /\ CD' = [i \in 1..Len(CD) |-> WithNrf(CD[i], NewRfCold(CD[i]))]
  /\ current_rf' = StoreRf(current_rf, CD')
  /\ pc' = "save"
  /\ UNCHANGED <<log_file, DN_count, df, time_interval, interval_idx,
                 file_metrics, T, HD, WD, results>>

\* run(): self.save_interval_results(...), then the next iteration
SaveIntervalResults ==
  /\ pc = "save"
  /\ LET iv == time_interval[interval_idx]
     IN results' = Append(results,
                     [interval_idx |-> interval_idx,
                      rows |-> ResultTable(HD, WD, CD, T, iv[1], iv[2])])
  /\ interval_idx' = interval_idx + 1
  /\ pc' = "process_files"
  /\ UNCHANGED <<log_file, DN_count, df, current_rf, time_interval,
                 file_metrics, T, HD, WD, CD>>

\* run(): the loop is exhausted, "Algorithm Completed"
Complete ==
  /\ pc = "process_files"
  /\ interval_idx > Len(time_interval)
  /\ pc' = "done"
  /\ UNCHANGED <<log_file, DN_count, df, current_rf, time_interval,
                 interval_idx, file_metrics, T, HD, WD, CD, results>>

Next ==
  \/ SetTimeInterval
  \/ ProcessFiles
  \/ CalculateThreshold
  \/ ClassifyFiles
  \/ CalculateNewRfForHotWarm
  \/ ProcessColdData
  \/ SaveIntervalResults
  \/ Complete

Spec == Init /\ [][Next]_vars

\* ------------------------------------- calculate_weight on its own
\* a Calculator and a DN_count >= 1; file_metrics will hold the weights of
\* dnc_i = 0, 1, 2, ...
WeightInit ==
  /\ log_file = << >>
  /\ DN_count \in 1..MaxDN
  /\ df = << >>
  /\ current_rf = << >>
  /\ time_interval = << >>
  /\ interval_idx = 0
  /\ file_metrics = << >>
  /\ T = <<0, 1>>
  /\ HD = << >>
  /\ WD = << >>
  /\ CD = << >>
  /\ results = << >>
  /\ pc = "calculate_weight"

\* w_i = cal.calculate_weight(dnc_i, DN_count) for the next dnc_i
CalculateWeight ==
  /\ pc = "calculate_weight"
  /\ Len(file_metrics) <= MaxDnc
  /\ file_metrics' =
       Append(file_metrics,
              [dnc_i |-> Len(file_metrics),
               w_i |-> calculate_weight(Len(file_metrics), DN_count)])
  /\ UNCHANGED <<log_file, DN_count, df, current_rf, time_interval,
                 interval_idx, T, HD, WD, CD, results, pc>>

WeightNext == CalculateWeight

WeightSpec == WeightInit /\ [][WeightNext]_vars


TypeOK == pc \in {"start", "process_files", "threshold", "classify",
                  "hot_warm", "cold", "save", "done", "KeyError",
                  "ArithmeticError", "calculate_weight"}

\* ------------------------------------------------- vocabulary of the claims
\* event e lies in the window of interval k
InWindow(e, k) ==
  /\ time_interval[k][1] <= e.timestamp
  /\ e.timestamp < time_interval[k][2]

\* positions in the log of the events of interval k
EventsIn(k) == {i \in 1..Len(log_file) : InWindow(log_file[i], k)}

\* filenames with at least one event in interval k
FilesIn(k) == {log_file[i].filename : i \in EventsIn(k)}

\* initial replication factor of the first event of filename f in interval k
FirstRfIn(k, f) ==
  log_file[SetMin({i \in EventsIn(k) : log_file[i].filename = f})]
    .current_replication_factor

Filenames(rows) == {rows[i].filename : i \in 1..Len(rows)}

\* the row of filename f in a table
RowOf(rows, f) == rows[CHOOSE i \in 1..Len(rows) : rows[i].filename = f]

\* HD, WD, CD hold the classification of file_metrics
AfterClassify == pc \in {"hot_warm", "cold", "save"}

\* HD and WD carry nrf_i
AfterHotWarm == pc \in {"cold", "save"}

\* C1: every row emitted in interval k carries as crf_i the nrf_i emitted for
\* its filename in the most recent earlier interval in which the file had
\* events, and the initial replication factor of the file's first event of
\* interval k when there is no such interval.
C1_Recurrence ==
  \A k \in 1..Len(results) :
    \A i \in 1..Len(results[k].rows) :
      LET r == results[k].rows[i]
          prior == {j \in 1..(k - 1) : r.filename \in FilesIn(j)}
      IN IF prior # {}
         THEN /\ r.filename \in Filenames(results[SetMax(prior)].rows)
              /\ r.crf_i = RowOf(results[SetMax(prior)].rows, r.filename).nrf_i
         ELSE r.crf_i = FirstRfIn(k, r.filename)

\* a file emitted in interval 1 and in interval 3, absent from interval 2,
\* whose replication factor changed in interval 1
C1_Witness ==
  /\ Len(results) >= 3
  /\ \E f \in Filenames(results[3].rows) :
       /\ f \in Filenames(results[1].rows)
       /\ f \notin Filenames(results[2].rows)
       /\ RowOf(results[1].rows, f).nrf_i # RowOf(results[1].rows, f).crf_i
       /\ RowOf(results[3].rows, f).crf_i # FirstRfIn(3, f)

\* the case of the decision table a row with PD_i, w_i falls in
TableClass(PD, threshold, w) ==
  CASE FracGeq(PD, threshold) /\ w \in {3, 4} -> "HOT"
    [] FracGeq(PD, threshold) /\ w \in {1, 2} -> "WARM"
    [] FracLess(PD, threshold) /\ w \in {3, 4} -> "WARM"
    [] FracLess(PD, threshold) /\ w \in {1, 2} -> "COLD"
    [] OTHER -> "fallthrough"

\* C2: classify_files puts a row in HD iff PD_i >= T and w_i in {3,4}, in WD
\* iff (PD_i >= T and w_i in {1,2}) or (PD_i < T and w_i in {3,4}), in CD iff
\* PD_i < T and w_i in {1,2}, and no row is outside these four cases.
C2_DecisionTable ==
  AfterClassify =>
    \A i \in 1..Len(file_metrics) :
      LET m == file_metrics[i]
          c == TableClass(m.PD_i, T, m.w_i)
      IN /\ c # "fallthrough"
         /\ (m.filename \in Filenames(HD)) <=> (c = "HOT")
         /\ (m.filename \in Filenames(WD)) <=> (c = "WARM")
         /\ (m.filename \in Filenames(CD)) <=> (c = "COLD")
         /\ \A rows \in {HD, WD, CD} :
              m.filename \in Filenames(rows) =>
                RowOf(rows, m.filename).classification = c

\* one interval with a hot row with w_i = 3 and a row below the threshold
C2_Witness ==
  /\ pc = "hot_warm"
  /\ \E i \in 1..Len(HD) : HD[i].w_i = 3
  /\ \E i \in 1..Len(WD) : FracLess(WD[i].PD_i, T)

\* C3: HD, WD and CD partition the metrics rows: every filename of the
\* metrics is in exactly one of them and the three lengths add up to the
\* number of metrics rows.
C3_Partition ==
  AfterClassify =>
    /\ Filenames(HD) \cap Filenames(WD) = {}
    /\ Filenames(HD) \cap Filenames(CD) = {}
    /\ Filenames(WD) \cap Filenames(CD) = {}
    /\ Filenames(HD) \cup Filenames(WD) \cup Filenames(CD)
         = Filenames(file_metrics)
    /\ Len(HD) + Len(WD) + Len(CD) = Len(file_metrics)

\* an interval of two files, one classified hot and one not
C3_Witness ==
  /\ pc = "hot_warm"
  /\ Len(file_metrics) = 2
  /\ Len(HD) = 1
  /\ Len(WD) + Len(CD) = 1

Abs(x) == IF x >= 0 THEN x ELSE 0 - x

\* n is an integer nearest to num/den and, when num/den lies halfway between
\* two integers, the even one of the two
NearestTiesToEven(n, num, den) ==
  /\ 2 * Abs(n * den - num) <= den
  /\ 2 * Abs(n * den - num) = den => n % 2 = 0

\* n is an integer nearest to num/den and, when num/den lies halfway between
\* two integers, the higher one of the two
NearestTiesUp(n, num, den) ==
  /\ 2 * Abs(n * den - num) <= den
  /\ 2 * Abs(n * den - num) = den => n * den > num

\* the hot and warm rows of the interval being processed, after their update
UpdatedHotWarm == IF AfterHotWarm THEN Range(HD) \cup Range(WD) ELSE {}

UpdatedCold == IF pc = "save" THEN Range(CD) ELSE {}

\* C5: every cold row has nrf_i = 1 and erasure_coding = true whatever its
\* crf_i, current_rf[filename] is 1 after the interval, and 1 is the crf_i of
\* the file in the next interval in which it appears.
C5_ColdForcedToOne ==
  /\ \A r \in UpdatedCold : r.nrf_i = 1 /\ current_rf[r.filename] = 1
  /\ \A k \in 1..Len(results) :
       \A i \in 1..Len(results[k].rows) :
         LET r == results[k].rows[i]
             later == {j \in (k + 1)..Len(results) :
                         r.filename \in Filenames(results[j].rows)}
         IN r.classification = "COLD" =>
              /\ r.nrf_i = 1
              /\ r.erasure_coding = TRUE
              /\ (k = Len(results) /\ pc \in {"process_files", "done"})
                   => current_rf[r.filename] = 1
              /\ later # {} =>
                   RowOf(results[SetMin(later)].rows, r.filename).crf_i = 1

\* a file emitted cold with crf_i above 1 and emitted again later
C5_Witness ==
  \E k \in 1..Len(results) :
    \E i \in 1..Len(results[k].rows) :
      /\ results[k].rows[i].classification = "COLD"
      /\ results[k].rows[i].crf_i > 1
      /\ \E j \in (k + 1)..Len(results) :
           results[k].rows[i].filename \in Filenames(results[j].rows)

\* C6: in every row of every interval's result, erasure_coding is true iff
\* nrf_i = 1.
C6_ErasureIffOne ==
  \A k \in 1..Len(results) :
    \A i \in 1..Len(results[k].rows) :
      results[k].rows[i].erasure_coding = TRUE <=> results[k].rows[i].nrf_i = 1

\* one result with a hot row of nrf_i = 1 flagged for erasure coding and a
\* row of nrf_i above 1 not flagged
C6_Witness ==
  \E k \in 1..Len(results) :
    /\ \E i \in 1..Len(results[k].rows) :
         /\ results[k].rows[i].classification = "HOT"
         /\ results[k].rows[i].nrf_i = 1
         /\ results[k].rows[i].erasure_coding = TRUE
    /\ \E i \in 1..Len(results[k].rows) :
         /\ results[k].rows[i].nrf_i > 1
         /\ results[k].rows[i].erasure_coding = FALSE

\* filenames with an event in the window of the interval being processed
CurrentFiles ==
  IF interval_idx \in 1..Len(time_interval) THEN FilesIn(interval_idx) ELSE {}

\* one step leaves the entries of the files absent from the current interval
\* as they are, creates entries for files of the interval only, and, when it
\* is the aggregation step, changes no existing entry
C7_Step ==
  /\ \A f \in DOMAIN current_rf :
       /\ f \in DOMAIN current_rf'
       /\ f \notin CurrentFiles => current_rf'[f] = current_rf[f]
       /\ pc = "process_files" => current_rf'[f] = current_rf[f]
  /\ \A f \in DOMAIN current_rf' : f \notin DOMAIN current_rf => f \in CurrentFiles

\* C7: processing an interval changes current_rf only at filenames with an
\* event in the interval's window, and process_files only inserts entries for
\* filenames not yet in current_rf and never overwrites an entry.
C7_Frame == [][C7_Step]_vars

\* the second interval has been aggregated: the dict holds an entry of a file
\* absent from the window, and an entry of a file of the window that existed
\* before and differs from the file's value in the log
C7_Witness ==
  /\ pc = "threshold"
  /\ interval_idx = 2
  /\ \E f \in DOMAIN current_rf : f \notin CurrentFiles
  /\ \E f \in CurrentFiles :
       /\ f \in Filenames(results[1].rows)
       /\ current_rf[f] # FirstRfIn(2, f)

\* set_time_interval has returned
IntervalsSet == pc # "start"

\* C8: for every non-empty log, every event (the events at max_time
\* included) lies in the window of exactly one interval produced by
\* set_time_interval.
C8_NoEventLost ==
  IntervalsSet =>
    \A i \in 1..Len(log_file) :
      Cardinality({k \in 1..Len(time_interval) : InWindow(log_file[i], k)}) = 1

\* interval k has been taken up by the loop of run()
Reached(k) == IntervalsSet /\ k <= interval_idx /\ k <= Len(time_interval)

\* the loop of run() is past interval k
Passed(k) == Reached(k) /\ k < interval_idx

\* C9: an interval without events does not abort the run: the dict is as the
\* interval found it, the interval is recorded as a result without rows, and
\* the run goes on with the next interval.
C9_EmptyIntervalSkipped ==
  \A k \in 1..Len(time_interval) :
    (Reached(k) /\ EventsIn(k) = {}) =>
      /\ pc # "KeyError"
      /\ Passed(k) =>
           \E j \in 1..Len(results) :
             results[j].interval_idx = k /\ results[j].rows = << >>

\* C10: for a non-empty log set_time_interval returns at least one interval,
\* and exactly one, starting at min_time, when min_time = max_time.
C10_SomeInterval ==
  (IntervalsSet /\ log_file # << >>) =>
    LET stamps == {log_file[i].timestamp : i \in 1..Len(log_file)}
    IN /\ Len(time_interval) >= 1
       /\ SetMin(stamps) = SetMax(stamps) =>
            /\ Len(time_interval) = 1
            /\ time_interval[1][1] = SetMin(stamps)

\* run() has returned or raised
RunEnded ==
  pc \notin {"start", "process_files", "threshold", "classify", "hot_warm",
             "cold", "save", "calculate_weight"}

\* C11: a run over a log without events ends in EmptyLogError: no interval
\* is derived or processed and the run does not complete normally.
C11_EmptyLogFails ==
  log_file = << >> =>
    /\ pc # "done"
    /\ RunEnded => pc = "EmptyLogError"
    /\ time_interval = << >>
    /\ results = << >>

\* C12: a configuration with DN_count < 1 is rejected with
\* InvalidConfigurationError before any interval is processed: no interval is
\* aggregated, no current_rf entry is created and no result is emitted.
C12_InvalidConfigRejected ==
  DN_count < 1 =>
    /\ RunEnded => pc = "InvalidConfigurationError"
    /\ file_metrics = << >>
    /\ current_rf = << >>
    /\ results = << >>

\* the number of the quarters 1/4, 2/4, 3/4 of dn that dnc reaches
QuartersReached(dnc, dn) == Cardinality({q \in 1..3 : 4 * dnc >= q * dn})

\* C13: for DN_count >= 1 and dnc_i >= 0 the weight is in {1,2,3,4}, does not
\* decrease when dnc_i grows, and is 4 iff 4*dnc_i >= 3*DN_count, otherwise 3
\* iff 2*dnc_i >= DN_count, otherwise 2 iff 4*dnc_i >= DN_count, otherwise 1.
C13_WeightTiers ==
  pc = "calculate_weight" =>
    \A i \in 1..Len(file_metrics) :
      LET r == file_metrics[i]
      IN /\ r.w_i \in {1, 2, 3, 4}
         /\ r.w_i = 1 + QuartersReached(r.dnc_i, DN_count)
         /\ \A j \in 1..Len(file_metrics) :
              r.dnc_i <= file_metrics[j].dnc_i => r.w_i <= file_metrics[j].w_i

\* DN_count = 4: dnc_i = 0, 1, 2, 3 have the weights 1, 2, 3, 4, each of
\* 1, 2, 3 lying exactly on a tier boundary
C13_Witness ==
  /\ pc = "calculate_weight"
  /\ DN_count = 4
  /\ Len(file_metrics) >= 4
  /\ \A i \in 1..4 : file_metrics[i].dnc_i = i - 1 /\ file_metrics[i].w_i = i

\* position of a classification in the order HOT, WARM, COLD
Rank(c) == CASE c = "HOT" -> 1 [] c = "WARM" -> 2 [] c = "COLD" -> 3

\* C14: the rows of each result are ordered HOT before WARM before COLD and
\* by filename ascending within a classification; the results are emitted in
\* chronological interval order and numbered 1, 2, ... in that order.
C14_Ordered ==
  \A k \in 1..Len(results) :
    LET rows == results[k].rows
    IN /\ results[k].interval_idx = k
       /\ \A i \in 1..Len(rows) :
            /\ rows[i].interval_start = time_interval[k][1]
            /\ rows[i].interval_end = time_interval[k][2]
       /\ k > 1 => time_interval[k - 1][2] <= time_interval[k][1]
       /\ \A i \in 1..Len(rows) :
            \A j \in (i + 1)..Len(rows) :
              \/ Rank(rows[i].classification) < Rank(rows[j].classification)
              \/ /\ rows[i].classification = rows[j].classification
                 /\ rows[i].filename < rows[j].filename

\* two results; in one of them two rows of one classification, the file of
\* the second row being the first of the two in the log
C14_Witness ==
  /\ Len(results) >= 2
  /\ \E k \in 1..Len(results) :
       /\ Len(results[k].rows) = 2
       /\ results[k].rows[1].classification = results[k].rows[2].classification
       /\ log_file[SetMin(EventsIn(k))].filename = results[k].rows[2].filename

\* distinct node ids of the events of filename f in interval k
NodesIn(k, f) ==
  {log_file[i].node_id : i \in {e \in EventsIn(k) : log_file[e].filename = f}}

\* every initial replication factor is at least 1 and no file is accessed in
\* one interval by more than DN_count distinct nodes
WellFormedInput ==
  /\ \A i \in 1..Len(log_file) : log_file[i].current_replication_factor >= 1
  /\ \A k \in 1..Len(time_interval) :
       \A f \in FilesIn(k) : Cardinality(NodesIn(k, f)) <= DN_count

\* no emitted row raises the replication factor, and a row entered with
\* crf_i = 1 leaves with nrf_i = 1 and the erasure flag
RowsNeverIncrease ==
  \A k \in 1..Len(results) :
    \A i \in 1..Len(results[k].rows) :
      LET r == results[k].rows[i]
      IN /\ r.nrf_i <= r.crf_i
         /\ r.crf_i = 1 => (r.nrf_i = 1 /\ r.erasure_coding = TRUE)

\* one step raises no entry of current_rf and leaves an entry of 1 at 1,
\* unless the input is not well formed
C15_Step ==
  \/ /\ RowsNeverIncrease'
     /\ \A f \in DOMAIN current_rf :
          /\ f \in DOMAIN current_rf'
          /\ current_rf'[f] <= current_rf[f]
          /\ current_rf[f] = 1 => current_rf'[f] = 1
  \/ ~WellFormedInput'

\* C15: when every initial replication factor is >= 1 and every dnc_i is at
\* most DN_count, nrf_i <= crf_i in every row, current_rf[filename] never
\* increases, and 1 is absorbing: an entry of 1 stays 1 and every later row of
\* the file has nrf_i = 1 and erasure_coding = true, also when HOT.
C15_NeverIncreases == [][C15_Step]_vars

\* a row that lowered a replication factor above 1, and a file left at 1 by
\* one interval that is HOT in a later one, with crf_i = nrf_i = 1 and the
\* erasure flag
C15_Witness ==
  /\ WellFormedInput
  /\ \E k \in 1..Len(results) :
       \E i \in 1..Len(results[k].rows) :
         /\ results[k].rows[i].crf_i > 1
         /\ results[k].rows[i].nrf_i < results[k].rows[i].crf_i
  /\ \E k \in 1..Len(results) :
       \E j \in (k + 1)..Len(results) :
         \E f \in Filenames(results[k].rows) \cap Filenames(results[j].rows) :
           /\ RowOf(results[k].rows, f).nrf_i = 1
           /\ RowOf(results[j].rows, f).classification = "HOT"
           /\ RowOf(results[j].rows, f).crf_i = 1
           /\ RowOf(results[j].rows, f).nrf_i = 1
           /\ RowOf(results[j].rows, f).erasure_coding = TRUE
====
